---------------------------- MODULE Spec2Model ----------------------------
(***************************************************************************)
(* witness: snapshot-and-diff engine and its polling loop.                 *)
(*                                                                         *)
(*   SpecDiff  the two differs (witness.compare_states and                 *)
(*             diff_witness.diff_states / print_diff) applied to every     *)
(*             pair of snapshots over a small path set.                    *)
(*   Spec      the polling loop (witness.witness_loop, and                 *)
(*             voice_witness.watch_and_speak, which has the same control   *)
(*             flow) running scan_directory step by step against a         *)
(*             filesystem that changes under it, with an interrupt that    *)
(*             may arrive at any point.                                    *)
(*   SpecRoot  the same loop while the watched root is removed and         *)
(*             created again.                                              *)
(*   SpecScan  witness.scan_directory as a function of the directory tree, *)
(*             the root's path, `recursive` and `max_depth`.               *)
(*   SpecStore the two stores (witness.save_scan / load_previous_scan and  *)
(*             diff_witness.save_state / load_state) with json.dumps,      *)
(*             json.loads and write_text step by step, and loads that run  *)
(*             at any point.                                               *)
(*   SpecChain chain_witness.watch_loop with its singleton guard.          *)
(*   SpecCli   the commands witness.py --diff, witness.py --once [--save]  *)
(*             and diff_witness.py quick run one after another on one      *)
(*             root whose files change between two commands.               *)
(***************************************************************************)
EXTENDS Integers, Sequences, FiniteSets, TLC

VARIABLES
    \* ---- differ harness (SpecDiff) ----
    A,          \* "before" snapshot handed to the differs
    B,          \* "after" snapshot handed to the differs
    cs,         \* result of compare_states(A, B)
    ds,         \* result of diff_states(A, B)
    shown,      \* what print_diff lists for ds
    dpc,        \* position of the differ harness
    \* ---- filesystem under the watched root ----
    fs,         \* path -> entry (absent, file, directory)
    fsops,      \* number of changes made to the filesystem so far
    \* ---- poller (Spec) ----
    pc,         \* position of the poller
    state,      \* witness_loop's `state`: the held previous snapshot
    new_state,  \* scan_directory's `state` dict being filled (then `new_state`)
    items,      \* entries listed by the glob and not yet visited
    item,       \* the entry the scan is working on
    st_mtime,   \* value already evaluated for the record's 'mtime'
    st_size,    \* value already evaluated for the record's 'size'
    ret,        \* where the running scan_directory call returns to
    changes,    \* witness_loop's `changes`
    interrupted,\* a stop signal has been delivered
    \* ---- observations of the poller's output (history) ----
    scans,      \* completed scans: "none", "seed", "first" (tick), "more"
    base,       \* the snapshot the current tick's diff was computed against
    prevScan,   \* the snapshot returned by the completed scan before lastScan
    lastScan,   \* the snapshot returned by the latest completed scan
    unread,     \* paths hash_file could not read in the current scan
    reported,   \* the change report printed in the current tick (<<>>: none)
    closings,   \* number of closing reports printed
    afterStop,  \* scans or change reports begun after the stop was delivered
    \* ---- scan_directory as a function of its arguments (SpecScan) ----
    tree,       \* node (sequence of path components below the root) -> entry
    rootp,      \* `path.parts`: the components of the root's own path
    rexists,    \* `path.exists()`
    recursive,  \* scan_directory's `recursive`
    max_depth,  \* scan_directory's `max_depth`: <<>> for None, <<d>> for d
    scanned,    \* the snapshot scan_directory returned
    spc,        \* position of the scan harness
    \* ---- the watched root itself (SpecRoot) ----
    root,       \* the root directory exists
    \* ---- the two stores (SpecStore) ----
    disk,       \* file -> content: the last-scan file and the named states
    saving,     \* the write_text call in progress, or the last one made
    loaded,     \* the latest load: what was asked, in what state the file
                \* was, and what the load returned
    wsaved,     \* the latest completed save_scan (history)
    savedFor,   \* root path -> its latest completed save_scan (history)
    csaved,     \* name -> its latest completed save_state (history)
    fstat,      \* file -> how its content came about (history)
    storeops,   \* saves begun and damages done so far
    \* ---- chain watcher (SpecChain) ----
    cpc,        \* position of chain_witness.watch_loop
    has_singleton, \* HAS_SINGLETON: the Singleton class could be imported
    taken,      \* another process holds the "chain-witness" lock
    guard,      \* watch_loop's guard: "none", "held", "refused", "released"
    cfile,      \* content of the chain's state file
    cstate,     \* watch_loop's `state`
    cfp,        \* watch_loop's `fp`
    clog,       \* the messages given to log_observation so far
    cloaded,    \* load_state has been called
    chainops,   \* writes made to the chain's state file so far
    \* ---- the commands run one after another (SpecCli) ----
    out,        \* what the latest command did: its name, what it found
                \* stored, what it scanned and what it reported
    changed,    \* the files changed since the latest witness_diff run
    clisteps    \* commands run and filesystem changes made so far

dvars == <<A, B, cs, ds, shown, dpc>>
pvars == <<pc, state, new_state, items, item, st_mtime, st_size, ret, changes,
           interrupted, scans, base, prevScan, lastScan, unread, reported,
           closings, afterStop>>
svars == <<tree, rootp, rexists, recursive, max_depth, scanned, spc>>
rvars == <<root>>
tvars == <<disk, saving, loaded, wsaved, savedFor, csaved, fstat, storeops>>
cvars == <<cpc, has_singleton, taken, guard, cfile, cstate, cfp, clog, cloaded,
           chainops>>
uvars == <<out, changed, clisteps>>
xvars == <<svars, rvars, tvars, cvars, uvars>>
vars == <<A, B, cs, ds, shown, dpc, fs, fsops, pc, state, new_state, items,
          item, st_mtime, st_size, ret, changes, interrupted, scans, base, prevScan,
          lastScan, unread, reported, closings, afterStop,
          tree, rootp, rexists, recursive, max_depth, scanned, spc, root,
          disk, saving, loaded, wsaved, savedFor, csaved, fstat, storeops,
          cpc, has_singleton, taken, guard, cfile, cstate, cfp, clog, cloaded,
          chainops, out, changed, clisteps>>

(***************************************************************************)
(* Bounds of the model.                                                    *)
(***************************************************************************)
\* the latest modification time a file can have
MaxTime == 2
\* file contents are byte strings of length 0..MaxLen
MaxLen == 1
\* number of distinct values the truncated digest can take in the model
DigestSpace == 2

\* the filesystem is changed at most MaxFsOps times during a run
MaxFsOps == 1

\* relative paths of the root's entries, as strings of character codes:
\* "ab" and "b"
Paths == { <<97, 98>>, <<98>> }

Bytes == {0}
Contents == UNION { [1..n -> Bytes] : n \in 0..MaxLen }
\* st_mtime: an earliest and a latest instant; the program copies and
\* compares modification times for equality, and does nothing else with them
Times == {1, MaxTime}

\* Python's None: hash_file's value for a file it could not read
None == "None"

(***************************************************************************)
(* Fingerprinter                                                           *)
(***************************************************************************)
HexNames == <<"d0", "d1", "d2", "d3", "d4", "d5">>

RECURSIVE md5(_)
\* hashlib.md5(bytes): a deterministic function of the bytes into a finite
\* digest space (collisions exist)
md5(bytes) ==
    IF bytes = <<>> THEN 0
    ELSE (3 * md5(SubSeq(bytes, 1, Len(bytes) - 1)) + bytes[Len(bytes)] + 1)
             % DigestSpace

\* .hexdigest()[:8]
hexdigest8(bytes) == HexNames[md5(bytes) + 1]

Digests == { HexNames[i + 1] : i \in 0..(DigestSpace - 1) }

(***************************************************************************)
(* Ordering of path strings: Python's str comparison (code points,         *)
(* a proper prefix sorts first) and sorted().                              *)
(***************************************************************************)
RECURSIVE StrLess(_, _)
StrLess(s, t) ==
    IF s = <<>> THEN t # <<>>
    ELSE IF t = <<>> THEN FALSE
    ELSE IF s[1] # t[1] THEN s[1] < t[1]
    ELSE StrLess(Tail(s), Tail(t))

RECURSIVE sorted(_)
sorted(S) ==
    IF S = {} THEN <<>>
    ELSE LET m == CHOOSE x \in S : \A y \in S \ {x} : StrLess(x, y)
         IN  <<m>> \o sorted(S \ {m})

\* all orders in which a Python set may be iterated
RECURSIVE Orders(_)
Orders(S) ==
    IF S = {} THEN { <<>> }
    ELSE UNION { { <<x>> \o r : r \in Orders(S \ {x}) } : x \in S }

Range(s) == { s[i] : i \in 1..Len(s) }

IsAscending(s) == \A i \in 1..(Len(s) - 1) : StrLess(s[i], s[i + 1])

(***************************************************************************)
(* Differ: witness.compare_states                                          *)
(***************************************************************************)
\* compare_states iterating all_files without sorted() (here: in reverse)
compare_states_unsorted(before, after) ==
    LET all_files == DOMAIN before \cup DOMAIN after
        rev == sorted(all_files)
        order == [i \in 1..Len(rev) |-> rev[Len(rev) + 1 - i]]
        kind(fp) == IF fp \notin DOMAIN before THEN "created"
                    ELSE IF fp \notin DOMAIN after THEN "deleted"
                    ELSE IF before[fp].hash # after[fp].hash THEN "modified"
                    ELSE "unchanged"
        all == [i \in 1..Len(order) |-> <<kind(order[i]), order[i]>>]
    IN  SelectSeq(all, LAMBDA c : c[1] # "unchanged")

compare_states(before, after) ==
    LET all_files == DOMAIN before \cup DOMAIN after
        order == sorted(all_files)
        kind(fp) == IF fp \notin DOMAIN before THEN "created"
                    ELSE IF fp \notin DOMAIN after THEN "deleted"
                    ELSE IF before[fp].hash # after[fp].hash THEN "modified"
                    ELSE "unchanged"
        all == [i \in 1..Len(order) |-> <<kind(order[i]), order[i]>>]
    IN  SelectSeq(all, LAMBDA c : c[1] # "unchanged")

(***************************************************************************)
(* Differ: diff_witness.diff_states.  The result's lists are built by      *)
(* iterating Python sets, whose order is not fixed: the operator is the    *)
(* set of results a run can return.                                        *)
(***************************************************************************)
\* diff_states with the record test inverted (== for !=)
diff_states_inverted(state1, state2) ==
    LET s1 == state1.state
        s2 == state2.state
        files1 == DOMAIN s1
        files2 == DOMAIN s2
        common == files1 \cap files2
        modified == { f \in common : s1[f] = s2[f] }
    IN  { [ state1 |-> [name |-> state1.name, files |-> Cardinality(files1)],
            state2 |-> [name |-> state2.name, files |-> Cardinality(files2)],
            created |-> c, deleted |-> d, modified |-> m,
            unchanged |-> Cardinality(common) - Len(m) ] :
          c \in Orders(files2 \ files1),
          d \in Orders(files1 \ files2),
          m \in Orders(modified) }

\* diff_states taking all of files2 as created
diff_states_overlap(state1, state2) ==
    LET s1 == state1.state
        s2 == state2.state
        files1 == DOMAIN s1
        files2 == DOMAIN s2
        common == files1 \cap files2
        modified == { f \in common : s1[f] # s2[f] }
    IN  { [ state1 |-> [name |-> state1.name, files |-> Cardinality(files1)],
            state2 |-> [name |-> state2.name, files |-> Cardinality(files2)],
            created |-> c, deleted |-> d, modified |-> m,
            unchanged |-> Cardinality(common) - Len(m) ] :
          c \in Orders(files2),
          d \in Orders(files1 \ files2),
          m \in Orders(modified) }

diff_states(state1, state2) ==
    LET s1 == state1.state
        s2 == state2.state
        files1 == DOMAIN s1
        files2 == DOMAIN s2
        common == files1 \cap files2
        modified == { f \in common : s1[f] # s2[f] }
    IN  { [ state1 |-> [name |-> state1.name, files |-> Cardinality(files1)],
            state2 |-> [name |-> state2.name, files |-> Cardinality(files2)],
            created |-> c, deleted |-> d, modified |-> m,
            unchanged |-> Cardinality(common) - Len(m) ] :
          c \in Orders(files2 \ files1),
          d \in Orders(files1 \ files2),
          m \in Orders(modified) }

\* print_diff lists at most this many paths of a kind
ShownMax == 10

Head10(s) == SubSeq(s, 1, IF Len(s) < ShownMax THEN Len(s) ELSE ShownMax)

\* diff_witness.print_diff: the paths it prints under CREATED, DELETED, MODIFIED
print_diff(diff) ==
    [ created  |-> Head10(sorted(Range(diff.created))),
      deleted  |-> Head10(sorted(Range(diff.deleted))),
      modified |-> Head10(sorted(Range(diff.modified))) ]


(***************************************************************************)
(* Snapshots: path -> {'mtime', 'size', 'hash'} (witness.scan_directory)   *)
(***************************************************************************)
\* st_size of a directory: a value no file content of the model has
DirSize == MaxLen + 1

FileRecords == [mtime : Times, size : 0..MaxLen, hash : Digests \cup {None}]

Snapshots(P) == UNION { [D -> FileRecords] : D \in SUBSET P }

EmptySnapshot == [p \in {} |-> None]

NoDiff == [ state1 |-> [name |-> "", files |-> 0],
            state2 |-> [name |-> "", files |-> 0],
            created |-> <<>>, deleted |-> <<>>, modified |-> <<>>,
            unchanged |-> 0 ]

NoShown == [created |-> <<>>, deleted |-> <<>>, modified |-> <<>>]

\* a stored state as load_state returns it, reduced to what diff_states reads
Stored(name, snap) == [name |-> name, state |-> snap]

(***************************************************************************)
(* The poller's variables when no poller runs (SpecDiff), and the differ   *)
(* harness' variables when none runs (Spec).                               *)
(***************************************************************************)
PollerOff ==
    /\ pc = "off"
    /\ state = EmptySnapshot
    /\ new_state = EmptySnapshot
    /\ items = {}
    /\ item = <<>>
    /\ st_mtime = 0
    /\ st_size = 0
    /\ ret = ""
    /\ changes = <<>>
    /\ interrupted = FALSE
    /\ scans = "none"
    /\ base = EmptySnapshot
    /\ prevScan = EmptySnapshot
    /\ lastScan = EmptySnapshot
    /\ unread = {}
    /\ reported = <<>>
    /\ closings = 0
    /\ afterStop = 0

DifferOff ==
    /\ A = EmptySnapshot
    /\ B = EmptySnapshot
    /\ cs = <<>>
    /\ ds = NoDiff
    /\ shown = NoShown
    /\ dpc = "off"

Absent == [kind |-> "absent"]

\* the scan harness' variables when none runs
ScanOff ==
    /\ tree = <<>>
    /\ rootp = <<>>
    /\ rexists = FALSE
    /\ recursive = FALSE
    /\ max_depth = <<>>
    /\ scanned = EmptySnapshot
    /\ spc = "off"

\* the root stays in place throughout (Spec), or is not looked at (SpecDiff)
RootOff == root = TRUE

\* the stores' variables when no store is used
StoreOff ==
    /\ disk = <<>>
    /\ saving = <<>>
    /\ loaded = <<>>
    /\ wsaved = <<>>
    /\ savedFor = <<>>
    /\ csaved = <<>>
    /\ fstat = <<>>
    /\ storeops = 0

\* the chain watcher's variables when it does not run
ChainOff ==
    /\ cpc = "off"
    /\ has_singleton = FALSE
    /\ taken = FALSE
    /\ guard = "none"
    /\ cfile = [kind |-> "missing"]
    /\ cstate = [kind |-> "none"]
    /\ cfp = ""
    /\ clog = <<>>
    /\ cloaded = FALSE
    /\ chainops = 0

\* the record of the latest command when none has run
NoRun == [cmd |-> "none", kept |-> <<>>, due |-> <<>>, slot |-> <<>>]

\* the command line's variables when no command is run
CliOff ==
    /\ out = NoRun
    /\ changed = FALSE
    /\ clisteps = 0

OthersOff ==
    /\ ScanOff
    /\ RootOff
    /\ StoreOff
    /\ ChainOff
    /\ CliOff

(***************************************************************************)
(* SpecDiff: every pair of snapshots, compare_states, diff_states,         *)
(* print_diff.                                                             *)
(***************************************************************************)
InitDiff ==
    /\ A \in Snapshots(Paths)
    /\ B \in Snapshots(Paths)
    /\ cs = <<>>
    /\ ds = NoDiff
    /\ shown = NoShown
    /\ dpc = "start"
    /\ fs = [p \in Paths |-> Absent]
    /\ fsops = 0
    /\ PollerOff
    /\ OthersOff

\* changes = compare_states(previous, current)
DoCompare ==
    /\ dpc = "start"
    /\ cs' = compare_states(A, B)
    /\ dpc' = "compared"
    /\ UNCHANGED <<A, B, ds, shown, fs, fsops, pvars, xvars>>

\* diff = diff_states(state1, state2)
DoDiffStates ==
    /\ dpc = "compared"
    /\ \E d \in diff_states(Stored("A", A), Stored("B", B)) : ds' = d
    /\ dpc' = "diffed"
    /\ UNCHANGED <<A, B, cs, shown, fs, fsops, pvars, xvars>>

\* print_diff(diff)
DoPrintDiff ==
    /\ dpc = "diffed"
    /\ shown' = print_diff(ds)
    /\ dpc' = "printed"
    /\ UNCHANGED <<A, B, cs, ds, fs, fsops, pvars, xvars>>

NextDiff == DoCompare \/ DoDiffStates \/ DoPrintDiff

SpecDiff == InitDiff /\ [][NextDiff]_vars

(***************************************************************************)
(* The filesystem under the watched root, and what changes it while the    *)
(* poller runs.                                                            *)
(***************************************************************************)
Dir(t) == [kind |-> "dir", mtime |-> t]
File(c, t, r) == [kind |-> "file", content |-> c, mtime |-> t, readable |-> r]

Entries == {Absent} \cup { Dir(t) : t \in Times }
               \cup { File(c, t, r) : c \in Contents, t \in Times, r \in BOOLEAN }

\* what the root holds when the poller is started: readable files
InitEntries == {Absent} \cup { File(c, t, TRUE) : c \in Contents, t \in Times }

Running == pc \in {"start", "sleep", "scan", "stat_mtime", "stat_size", "hash",
                   "compare", "report", "advance"}

\* the poller's next step reads the filesystem
ReadsNext == pc \in {"start", "sleep", "scan", "stat_mtime", "stat_size", "hash"}

\* One change of the filesystem.  A change made while the poller is not about
\* to read the filesystem is seen by it exactly as one made just before its
\* next read, so changes are taken at those points only.
FsChange(p, e) ==
    /\ ReadsNext
    /\ fsops < MaxFsOps
    /\ fsops' = fsops + 1
    /\ fs' = [fs EXCEPT ![p] = e]
    /\ UNCHANGED <<dvars, pvars, xvars>>

\* a file is created, or rewritten (with the same or other bytes)
FsWrite ==
    \E p \in Paths, c \in Contents, t \in Times :
        /\ fs[p].kind # "dir"
        /\ fs[p] # File(c, t, TRUE)
        /\ FsChange(p, File(c, t, IF fs[p].kind = "file" THEN fs[p].readable ELSE TRUE))

\* a file's read permission is withdrawn or restored
FsChmod ==
    \E p \in Paths :
        /\ fs[p].kind = "file"
        /\ FsChange(p, [fs[p] EXCEPT !.readable = ~fs[p].readable])

\* a file or a directory is removed
FsRemove ==
    \E p \in Paths :
        /\ fs[p].kind # "absent"
        /\ FsChange(p, Absent)

\* a directory is created
FsMkdir ==
    \E p \in Paths, t \in Times :
        /\ fs[p].kind = "absent"
        /\ FsChange(p, Dir(t))

(***************************************************************************)
(* witness.hash_file and the pathlib calls of scan_directory               *)
(***************************************************************************)
\* open(path, 'rb') + read: fails (OSError) on a missing or unreadable file
\* and on a directory
hash_file(e) ==
    IF e.kind = "file" /\ e.readable THEN hexdigest8(e.content) ELSE None

\* item.is_file(): False for a missing entry, no exception
is_file(e) == e.kind = "file"

\* item.stat() raises FileNotFoundError for a missing entry
stat_raises(e) == e.kind = "absent"

stat_size(e) == IF e.kind = "dir" THEN DirSize ELSE Len(e.content)

\* any(part.startswith('.') for part in item.parts), for an entry of the root
startswith_dot(path) == path # <<>> /\ path[1] = 46

\* path.rglob('*') / path.glob('*'): the root's entries at the time of listing
listing == { p \in Paths : fs[p].kind # "absent" }

(***************************************************************************)
(* scan_directory, one filesystem access per step                          *)
(***************************************************************************)
\* state = {}; if not path.exists(): return state; items = path.rglob('*')
ScanBegin(from) ==
    /\ pc' = "scan"
    /\ ret' = from
    /\ new_state' = EmptySnapshot
    /\ items' = IF root THEN listing ELSE {}
    /\ unread' = {}
    /\ afterStop' = IF interrupted THEN afterStop + 1 ELSE afterStop

\* for item in items: if item.is_file(): ... hidden check
ScanItem ==
    /\ pc = "scan"
    /\ \E i \in items :
        /\ items' = items \ {i}
        /\ IF is_file(fs[i]) /\ ~startswith_dot(i)
           THEN pc' = "stat_mtime" /\ item' = i
           ELSE pc' = "scan" /\ item' = item
    /\ UNCHANGED <<xvars, dvars, fs, fsops, state, new_state, st_mtime, st_size, ret,
                   changes, interrupted, scans, base, prevScan, lastScan, unread,
                   reported, closings, afterStop>>

\* 'mtime': item.stat().st_mtime
StatMtime ==
    /\ pc = "stat_mtime"
    /\ ~stat_raises(fs[item])
    /\ st_mtime' = fs[item].mtime
    /\ pc' = "stat_size"
    /\ UNCHANGED <<xvars, dvars, fs, fsops, state, new_state, items, item, st_size, ret,
                   changes, interrupted, scans, base, prevScan, lastScan, unread,
                   reported, closings, afterStop>>

\* 'size': item.stat().st_size
StatSize ==
    /\ pc = "stat_size"
    /\ ~stat_raises(fs[item])
    /\ st_size' = stat_size(fs[item])
    /\ pc' = "hash"
    /\ UNCHANGED <<xvars, dvars, fs, fsops, state, new_state, items, item, st_mtime, ret,
                   changes, interrupted, scans, base, prevScan, lastScan, unread,
                   reported, closings, afterStop>>

\* 'hash': hash_file(item); state[rel_path] = {...}; the loop's temporaries
\* are dead until the next item sets them
HashFile ==
    /\ pc = "hash"
    /\ LET h == hash_file(fs[item])
           rec == [mtime |-> st_mtime, size |-> st_size, hash |-> h]
       IN  /\ new_state' = [p \in DOMAIN new_state \cup {item} |->
                               IF p = item THEN rec ELSE new_state[p]]
           /\ unread' = IF h = None THEN unread \cup {item} ELSE unread
    /\ pc' = "scan"
    /\ item' = <<>>
    /\ st_mtime' = 0
    /\ st_size' = 0
    /\ UNCHANGED <<xvars, dvars, fs, fsops, state, items, ret, changes, interrupted,
                   scans, base, prevScan, lastScan, reported, closings,
                   afterStop>>

\* the function's frame is gone once it has returned or an exception has
\* left it (and with it what was being observed of the running tick)
FrameDropped ==
    /\ state' = EmptySnapshot
    /\ new_state' = EmptySnapshot
    /\ items' = {}
    /\ item' = <<>>
    /\ st_mtime' = 0
    /\ st_size' = 0
    /\ changes' = <<>>
    /\ unread' = {}
    /\ base' = EmptySnapshot
    /\ prevScan' = EmptySnapshot
    /\ lastScan' = EmptySnapshot
    /\ reported' = <<>>

\* item.stat() raises inside scan_directory: nothing in scan_directory or in
\* the loop catches it (the loop catches KeyboardInterrupt only)
StatRaises ==
    /\ pc \in {"stat_mtime", "stat_size"}
    /\ stat_raises(fs[item])
    /\ pc' = "crashed"
    /\ FrameDropped
    /\ UNCHANGED <<xvars, dvars, fs, fsops, ret, interrupted, scans, closings,
                   afterStop>>

(***************************************************************************)
(* witness_loop (voice_witness.watch_and_speak runs the same steps)        *)
(***************************************************************************)
\* the banner, then state = scan_directory(path, ...) is entered
Start ==
    /\ pc = "start"
    /\ ScanBegin("seed")
    /\ UNCHANGED <<xvars, dvars, fs, fsops, state, item, st_mtime, st_size, changes,
                   interrupted, scans, base, prevScan, lastScan, reported,
                   closings>>

\* the seed scan returns: state = <result>; "initial state: ..."; try: while True:
SeedDone ==
    /\ pc = "scan"
    /\ items = {}
    /\ ret = "seed"
    /\ state' = new_state
    /\ scans' = "seed"
    /\ lastScan' = new_state
    /\ pc' = "sleep"
    /\ UNCHANGED <<xvars, dvars, fs, fsops, new_state, items, item, st_mtime, st_size,
                   ret, changes, interrupted, base, prevScan, unread, reported,
                   closings, afterStop>>

\* time.sleep(interval); new_state = scan_directory(path, ...) is entered
\* (a new tick: what was observed of the last one is dropped)
Sleep ==
    /\ pc = "sleep"
    /\ ScanBegin("tick")
    /\ changes' = <<>>
    /\ reported' = <<>>
    /\ base' = EmptySnapshot
    /\ prevScan' = EmptySnapshot
    /\ UNCHANGED <<xvars, dvars, fs, fsops, state, item, st_mtime, st_size,
                   interrupted, scans, lastScan, closings>>

\* the tick's scan returns: new_state = <result>
TickScanDone ==
    /\ pc = "scan"
    /\ items = {}
    /\ ret = "tick"
    /\ scans' = IF scans = "seed" THEN "first" ELSE "more"
    /\ prevScan' = lastScan
    /\ lastScan' = new_state
    /\ pc' = "compare"
    /\ UNCHANGED <<xvars, dvars, fs, fsops, state, new_state, items, item, st_mtime,
                   st_size, ret, changes, interrupted, base, unread, reported,
                   closings, afterStop>>

\* Compare with the test of `changes` inverted
Compare_Inverted ==
    /\ pc = "compare"
    /\ changes' = compare_states(state, new_state)
    /\ base' = state
    /\ pc' = IF changes' = <<>> THEN "report" ELSE "advance"
    /\ UNCHANGED <<xvars, dvars, fs, fsops, state, new_state, items, item, st_mtime,
                   st_size, ret, interrupted, scans, prevScan, lastScan, unread,
                   reported, closings, afterStop>>

\* changes = compare_states(state, new_state); if changes:
Compare ==
    /\ pc = "compare"
    /\ changes' = compare_states(state, new_state)
    /\ base' = state
    /\ pc' = IF changes' # <<>> THEN "report" ELSE "advance"
    /\ UNCHANGED <<xvars, dvars, fs, fsops, state, new_state, items, item, st_mtime,
                   st_size, ret, interrupted, scans, prevScan, lastScan, unread,
                   reported, closings, afterStop>>

\* print the timestamp and one line per change
Report ==
    /\ pc = "report"
    /\ reported' = changes
    /\ afterStop' = IF interrupted THEN afterStop + 1 ELSE afterStop
    /\ pc' = "advance"
    /\ UNCHANGED <<xvars, dvars, fs, fsops, state, new_state, items, item, st_mtime,
                   st_size, ret, changes, interrupted, scans, base, prevScan,
                   lastScan, unread, closings>>

\* Advance with the assignment moved under `if changes:`
Advance_OnlyOnChange ==
    /\ pc = "advance"
    /\ state' = IF changes # <<>> THEN new_state ELSE state
    /\ pc' = "sleep"
    /\ UNCHANGED <<xvars, dvars, fs, fsops, new_state, items, item, st_mtime, st_size,
                   ret, changes, interrupted, scans, base, prevScan, lastScan,
                   unread, reported, closings, afterStop>>

\* state = new_state
Advance ==
    /\ pc = "advance"
    /\ state' = new_state
    /\ pc' = "sleep"
    /\ UNCHANGED <<xvars, dvars, fs, fsops, new_state, items, item, st_mtime, st_size,
                   ret, changes, interrupted, scans, base, prevScan, lastScan,
                   unread, reported, closings, afterStop>>

\* positions inside the try block of the loop
InTry ==
    \/ pc \in {"sleep", "compare", "report", "advance"}
    \/ pc \in {"scan", "stat_mtime", "stat_size", "hash"} /\ ret = "tick"

\* KeyboardInterrupt raised inside the try block: except KeyboardInterrupt
\* prints the closing lines and the function returns
InterruptCaught ==
    /\ Running
    /\ ~interrupted
    /\ InTry
    /\ interrupted' = TRUE
    /\ closings' = closings + 1
    /\ pc' = "done"
    /\ FrameDropped
    /\ UNCHANGED <<xvars, dvars, fs, fsops, ret, scans, afterStop>>

\* KeyboardInterrupt raised before the try block is entered (the banner, the
\* seed scan, the lines after it): no handler, the exception leaves the function
InterruptUncaught ==
    /\ Running
    /\ ~interrupted
    /\ ~InTry
    /\ interrupted' = TRUE
    /\ pc' = "killed"
    /\ FrameDropped
    /\ UNCHANGED <<xvars, dvars, fs, fsops, ret, scans, closings, afterStop>>

Init ==
    /\ DifferOff
    /\ OthersOff
    /\ fs \in [Paths -> InitEntries]
    /\ fsops = 0
    /\ pc = "start"
    /\ state = EmptySnapshot
    /\ new_state = EmptySnapshot
    /\ items = {}
    /\ item = <<>>
    /\ st_mtime = 0
    /\ st_size = 0
    /\ ret = ""
    /\ changes = <<>>
    /\ interrupted = FALSE
    /\ scans = "none"
    /\ base = EmptySnapshot
    /\ prevScan = EmptySnapshot
    /\ lastScan = EmptySnapshot
    /\ unread = {}
    /\ reported = <<>>
    /\ closings = 0
    /\ afterStop = 0

Next ==
    \/ Start
    \/ ScanItem
    \/ StatMtime
    \/ StatSize
    \/ HashFile
    \/ StatRaises
    \/ SeedDone
    \/ Sleep
    \/ TickScanDone
    \/ Compare
    \/ Report
    \/ Advance
    \/ InterruptCaught
    \/ InterruptUncaught
    \/ FsWrite
    \/ FsChmod
    \/ FsRemove
    \/ FsMkdir

Spec == Init /\ [][Next]_vars

(***************************************************************************)
(* Vocabulary of the differ claims                                         *)
(***************************************************************************)
Compared == dpc \in {"compared", "diffed", "printed"}
Diffed == dpc \in {"diffed", "printed"}

CsOfKind(k) == { c[2] : c \in { x \in Range(cs) : x[1] = k } }
CsPaths == [i \in 1..Len(cs) |-> cs[i][2]]

DigestDiffers == { p \in DOMAIN A \cap DOMAIN B : A[p].hash # B[p].hash }

NoRepeat(s) == Cardinality(Range(s)) = Len(s)

(***************************************************************************)
(* C1: both differs classify as Created exactly keys(B) \ keys(A), as      *)
(* Deleted exactly keys(A) \ keys(B), and as Modified exactly the common   *)
(* paths whose content digest differs.                                     *)
(***************************************************************************)
C1_ClassifiedByDigest ==
    Diffed =>
        /\ CsOfKind("created") = DOMAIN B \ DOMAIN A
        /\ CsOfKind("deleted") = DOMAIN A \ DOMAIN B
        /\ CsOfKind("modified") = DigestDiffers
        /\ Range(ds.created) = DOMAIN B \ DOMAIN A
        /\ Range(ds.deleted) = DOMAIN A \ DOMAIN B
        /\ Range(ds.modified) = DigestDiffers

(***************************************************************************)
(* C2: the result of diff_states partitions keys(A) \cup keys(B): created, *)
(* deleted and modified are pairwise disjoint, no path occurs twice, and   *)
(* unchanged + |modified| + |deleted| + |created| = |keys(A) \cup keys(B)| *)
(* with unchanged >= 0; compare_states names every path at most once.      *)
(***************************************************************************)
C2_DiffPartitions ==
    Diffed =>
        /\ Range(ds.created) \cap Range(ds.deleted) = {}
        /\ Range(ds.created) \cap Range(ds.modified) = {}
        /\ Range(ds.deleted) \cap Range(ds.modified) = {}
        /\ NoRepeat(ds.created) /\ NoRepeat(ds.deleted) /\ NoRepeat(ds.modified)
        /\ Range(ds.created) \cup Range(ds.deleted) \cup Range(ds.modified)
               \subseteq DOMAIN A \cup DOMAIN B
        /\ ds.unchanged >= 0
        /\ ds.unchanged + Len(ds.modified) + Len(ds.deleted) + Len(ds.created)
               = Cardinality(DOMAIN A \cup DOMAIN B)
        /\ NoRepeat(CsPaths)
        /\ Range(CsPaths) \subseteq DOMAIN A \cup DOMAIN B

\* a diff with a created and a modified path
C2_Witness ==
    /\ Diffed
    /\ ds.created # <<>>
    /\ ds.modified # <<>>
    /\ ds.unchanged = 0

(***************************************************************************)
(* C3: digest equality is the sole criterion for Modified: a path with the *)
(* same digest in A and B, whatever its mtime and size, is reported as     *)
(* modified neither by compare_states nor by diff_states.                  *)
(***************************************************************************)
C3_DigestSoleCriterion ==
    Diffed =>
        \A p \in DOMAIN A \cap DOMAIN B :
            A[p].hash = B[p].hash =>
                /\ p \notin CsOfKind("modified")
                /\ p \notin Range(ds.modified)

(***************************************************************************)
(* C4: diffing a snapshot against itself yields no change entry and an     *)
(* unchanged count equal to its number of files (0 for the empty one).     *)
(***************************************************************************)
C4_SelfDiffEmpty ==
    (Diffed /\ A = B) =>
        /\ cs = <<>>
        /\ ds.created = <<>>
        /\ ds.deleted = <<>>
        /\ ds.modified = <<>>
        /\ ds.unchanged = Cardinality(DOMAIN A)

C4_Witness ==
    /\ Diffed
    /\ A = B
    /\ Cardinality(DOMAIN A) = 2

TickCompleted == pc = "sleep" /\ scans \in {"first", "more"}

(***************************************************************************)
(* C6: after every completed tick the held previous snapshot is the        *)
(* snapshot scanned in that tick, with or without entries in the tick's    *)
(* diff; each tick's diff was computed against the snapshot of the scan    *)
(* before it.                                                              *)
(***************************************************************************)
C6_PreviousAlwaysAdvances ==
    /\ (pc = "sleep") => state = lastScan
    /\ (pc \in {"report", "advance"} \/ TickCompleted) => base = prevScan

\* a completed tick without entries whose scan differs from the one before
\* (same digests, another mtime)
C6_Witness ==
    /\ TickCompleted
    /\ reported = <<>>
    /\ prevScan # lastScan
    /\ state = lastScan

(***************************************************************************)
(* C7: one seed scan completes before any comparison; a tick prints a      *)
(* change report if and only if the diff between the previous snapshot and *)
(* the newly scanned one has an entry, and the report is that diff; the    *)
(* first tick compares against the seed snapshot.                          *)
(***************************************************************************)
C7_ReportIffChanges ==
    /\ (pc \in {"compare", "report", "advance"}) => scans \in {"first", "more"}
    /\ (pc = "sleep" /\ scans = "seed") => (state = lastScan /\ reported = <<>>)
    /\ (pc = "advance" \/ TickCompleted) =>
           /\ reported = compare_states(prevScan, lastScan)
           /\ (reported # <<>>) <=> (compare_states(prevScan, lastScan) # <<>>)

\* the first tick has completed and printed a report
C7_Witness ==
    /\ pc = "sleep"
    /\ scans = "first"
    /\ reported # <<>>

(***************************************************************************)
(* C8: an error raised by a scan inside the polling loop (not a stop       *)
(* request) does not terminate the loop.                                   *)
(***************************************************************************)
C8_LoopSurvivesScanError == ~(pc = "crashed" /\ ret = "tick")

(***************************************************************************)
(* C9: a stop signal delivered at any point from the seed scan on (during  *)
(* the seed scan, a tick's scan or the sleep) is handled by the poller:    *)
(* the closing report is printed once and no scan or change report is      *)
(* begun afterwards.                                                       *)
(***************************************************************************)
C9_StopHandledCleanly ==
    (interrupted /\ ret # "") => (pc = "done" /\ closings = 1 /\ afterStop = 0)

(***************************************************************************)
(* C10: whatever the filesystem does during a scan, scan_directory does    *)
(* not abort, and a file that could not be read is in the snapshot with    *)
(* the sentinel digest.                                                    *)
(***************************************************************************)
C10_ScanNeverAborts ==
    /\ pc # "crashed"
    /\ \A p \in unread : p \in DOMAIN new_state /\ new_state[p].hash = None

(***************************************************************************)
(* SpecRoot: the polling loop while the watched root itself is removed     *)
(* (with everything below it) and created again.                           *)
(***************************************************************************)
\* the root is removed or created at most MaxRootOps times during a run
MaxRootOps == 2

\* shutil.rmtree / rm -r of the watched root
RootRemove ==
    /\ ReadsNext
    /\ root
    /\ fsops < MaxRootOps
    /\ fsops' = fsops + 1
    /\ root' = FALSE
    /\ fs' = [p \in Paths |-> Absent]
    /\ UNCHANGED <<dvars, pvars, uvars, svars, tvars, cvars>>

\* the root is created again, with files in it
RootRestore ==
    /\ ReadsNext
    /\ ~root
    /\ fsops < MaxRootOps
    /\ fsops' = fsops + 1
    /\ root' = TRUE
    /\ fs' \in [Paths -> InitEntries]
    /\ UNCHANGED <<dvars, pvars, uvars, svars, tvars, cvars>>

NextRoot ==
    \/ Start
    \/ ScanItem
    \/ StatMtime
    \/ StatSize
    \/ HashFile
    \/ StatRaises
    \/ SeedDone
    \/ Sleep
    \/ TickScanDone
    \/ Compare
    \/ Report
    \/ Advance
    \/ RootRemove
    \/ RootRestore

SpecRoot == Init /\ [][NextRoot]_vars

\* the root has been removed at some point of the run
RootLost == fsops > 0

\* a tick whose scan ran from beginning to end on a missing root, after a
\* scan that had found files
TickAfterDisappearance ==
    /\ TickCompleted
    /\ ~root
    /\ DOMAIN base # {}
    /\ new_state = EmptySnapshot

\* C11: a poller whose root disappears and later reappears keeps running:
\* whenever the root has been removed, the loop is still running (it has not
\* been left by an error), and a tick that scanned the missing root has
\* reported every file of the previous snapshot, and nothing else, as
\* deleted.
C11_RootLossSurvived ==
    /\ RootLost => pc # "crashed"
    /\ TickAfterDisappearance =>
           /\ Len(reported) = Cardinality(DOMAIN base)
           /\ \A i \in 1..Len(reported) :
                  reported[i][1] = "deleted" /\ reported[i][2] \in DOMAIN base

(***************************************************************************)
(* scan_directory as a function of the directory tree below the root, the  *)
(* root's own path and its two options.  A node is the sequence of path    *)
(* components from the root down to an entry; a component is a string of   *)
(* character codes.                                                        *)
(***************************************************************************)
\* component names: "a", "b", "c", "x" and the dot-prefixed ".h"
na == <<97>>
nb == <<98>>
nc == <<99>>
nx == <<120>>
nh == <<46, 104>>

\* the entries a tree may hold: x, a, a/x, a/b, a/b/c, a/.h, .h, .h/x
ScanNodes == { <<nx>>, <<na>>, <<na, nx>>, <<na, nb>>, <<na, nb, nc>>,
               <<na, nh>>, <<nh>>, <<nh, nx>> }

\* `path.parts` of the root: /w, and /.c/w below a dot-prefixed directory
RootPaths == { << <<47>>, <<119>> >>, << <<47>>, <<46, 99>>, <<119>> >> }

\* what a node of the tree can be: nothing, a directory, a file (readable or
\* not)
TreeEntries == { Absent, Dir(1), File(<<>>, 1, TRUE), File(<<>>, 1, FALSE) }

parent(n) == SubSeq(n, 1, Len(n) - 1)

\* an entry exists only inside a directory
Trees == { t \in [ScanNodes -> TreeEntries] :
             \A n \in ScanNodes :
                 (Len(n) > 1 /\ t[n] # Absent) => t[parent(n)].kind = "dir" }

NoTree == [n \in ScanNodes |-> Absent]

\* largest max_depth handed to scan_directory
MaxDepthArg == 3

\* max_depth: None (<<>>) or an integer (<<d>>)
DepthArgs == { <<>> } \cup { <<d>> : d \in 0..MaxDepthArg }

\* str(item.relative_to(path)): the components joined by "/"
RECURSIVE Join(_)
Join(parts) ==
    IF Len(parts) = 1 THEN parts[1]
    ELSE parts[1] \o <<47>> \o Join(Tail(parts))

\* path.rglob('*'), always (the recursive flag ignored)
glob_always_recursive(t, rec) == { n \in DOMAIN t : t[n] # Absent }

\* path.rglob('*') if recursive else path.glob('*'): every entry below the
\* root, or the root's direct children
glob(t, rec) == { n \in DOMAIN t : t[n] # Absent /\ (rec \/ Len(n) = 1) }

\* the dot test made on the entry's own name only (item.name)
hidden_name_only(parts) == startswith_dot(parts[Len(parts)])

\* any(part.startswith('.') for part in item.parts)
hidden(parts) == \E i \in 1..Len(parts) : startswith_dot(parts[i])

\* the depth test with >= for >
too_deep_off_by_one(n, md) == md # <<>> /\ Len(n) >= md[1]

\* depth = len(item.relative_to(path).parts); if depth > max_depth: continue
too_deep(n, md) == md # <<>> /\ Len(n) > md[1]

\* scan_directory(path, recursive, max_depth) on a filesystem that is not
\* changed while it runs
scan_directory(rp, ex, t, rec, md) ==
    IF ~ex THEN EmptySnapshot
    ELSE LET kept == { n \in glob(t, rec) :
                         /\ is_file(t[n])
                         /\ ~hidden(rp \o n)
                         /\ ~too_deep(n, md) }
             node(k) == CHOOSE n \in kept : Join(n) = k
         IN  [k \in { Join(n) : n \in kept } |->
                 [mtime |-> t[node(k)].mtime,
                  size |-> stat_size(t[node(k)]),
                  hash |-> hash_file(t[node(k)])]]

(***************************************************************************)
(* SpecScan: scan_directory called once on every tree, root path and       *)
(* option.                                                                 *)
(***************************************************************************)
InitScan ==
    /\ DifferOff
    /\ PollerOff
    /\ CliOff
    /\ RootOff
    /\ StoreOff
    /\ ChainOff
    /\ fs = [p \in Paths |-> Absent]
    /\ fsops = 0
    /\ rootp \in RootPaths
    /\ rexists \in BOOLEAN
    /\ tree \in (IF rexists THEN Trees ELSE {NoTree})
    /\ recursive \in BOOLEAN
    /\ max_depth \in DepthArgs
    /\ scanned = EmptySnapshot
    /\ spc = "start"

\* state = scan_directory(path, recursive, max_depth)
DoScan ==
    /\ spc = "start"
    /\ scanned' = scan_directory(rootp, rexists, tree, recursive, max_depth)
    /\ spc' = "scanned"
    /\ UNCHANGED <<dvars, pvars, uvars, rvars, tvars, cvars, fs, fsops, tree, rootp,
                   rexists, recursive, max_depth>>

NextScan == DoScan

SpecScan == InitScan /\ [][NextScan]_vars

(***************************************************************************)
(* Vocabulary of the scan claims                                           *)
(***************************************************************************)
Scanned == spc = "scanned"

\* the components of a snapshot key: the maximal runs without "/"
RECURSIVE Split(_)
Split(k) ==
    IF \A i \in 1..Len(k) : k[i] # 47 THEN << k >>
    ELSE LET j == CHOOSE i \in 1..Len(k) :
                      k[i] = 47 /\ \A h \in 1..(i - 1) : k[h] # 47
         IN  << SubSeq(k, 1, j - 1) >> \o Split(SubSeq(k, j + 1, Len(k)))

\* the depth of a snapshot key: a direct child of the root has depth 1
Depth(k) == Len(Split(k))

\* the files of the tree that the exclusion policy does not reject: no
\* dot-prefixed component in the file's path, the root's included
PlainFiles ==
    { n \in ScanNodes :
        /\ tree[n].kind = "file"
        /\ \A i \in 1..Len(rootp \o n) : (rootp \o n)[i][1] # 46 }

(***************************************************************************)
(* C12: no snapshot returned by scan_directory has an entry for a          *)
(* directory, or an entry whose path has a component beginning with a dot: *)
(* every key is the path of a regular file of the tree, and none of its    *)
(* components is dot-prefixed.                                             *)
(***************************************************************************)
C12_NoDirectoryNoDotEntry ==
    Scanned =>
        \A k \in DOMAIN scanned :
            /\ \E n \in ScanNodes : Join(n) = k /\ tree[n].kind = "file"
            /\ \A i \in 1..Len(Split(k)) : Split(k)[i][1] # 46

\* a recursive scan without depth limit of a tree holding a directory, a
\* dot-prefixed file, a file below a dot-prefixed directory, and a file that
\* is recorded
C12_Witness ==
    /\ Scanned
    /\ recursive
    /\ max_depth = <<>>
    /\ tree[<<na, nb>>].kind = "dir"
    /\ tree[<<na, nh>>].kind = "file"
    /\ tree[<<nh, nx>>].kind = "file"
    /\ DOMAIN scanned = { Join(<<na, nx>>) }

(***************************************************************************)
(* C13: with max_depth set, no recorded file is deeper than max_depth,     *)
(* where a direct child of the root has depth 1; a file at depth <=        *)
(* max_depth that the exclusion policy does not reject is recorded (by a   *)
(* non-recursive scan when it is a direct child); with max_depth = 0 the   *)
(* snapshot is empty.                                                      *)
(***************************************************************************)
C13_DepthBoundary ==
    (Scanned /\ max_depth # <<>>) =>
        /\ \A k \in DOMAIN scanned : Depth(k) <= max_depth[1]
        /\ \A n \in PlainFiles :
               (Len(n) <= max_depth[1] /\ (recursive \/ Len(n) = 1))
                   => Join(n) \in DOMAIN scanned
        /\ max_depth[1] = 0 => scanned = EmptySnapshot

\* max_depth = 1 on a tree with files at depth 1, 2 and 3: the direct child
\* alone is recorded
C13_Witness ==
    /\ Scanned
    /\ recursive
    /\ max_depth = <<1>>
    /\ rexists
    /\ tree[<<nx>>].kind = "file"
    /\ tree[<<na, nx>>].kind = "file"
    /\ tree[<<na, nb, nc>>].kind = "file"
    /\ DOMAIN scanned = { nx }

(***************************************************************************)
(* C14: with recursive = False every recorded file is a direct child of    *)
(* the root, whatever max_depth is, and every direct child file that the   *)
(* exclusion policy and the depth limit do not reject is recorded.         *)
(***************************************************************************)
C14_NonRecursiveDirectChildren ==
    (Scanned /\ ~recursive) =>
        /\ \A k \in DOMAIN scanned : Depth(k) = 1
        /\ \A n \in PlainFiles :
               (Len(n) = 1 /\ ~(max_depth # <<>> /\ max_depth[1] < 1))
                   => Join(n) \in DOMAIN scanned

\* a non-recursive scan of a root holding x and a/x: x alone is recorded
C14_Witness ==
    /\ Scanned
    /\ ~recursive
    /\ max_depth = <<3>>
    /\ tree[<<nx>>].kind = "file"
    /\ tree[<<na, nx>>].kind = "file"
    /\ DOMAIN scanned = { nx }

(***************************************************************************)
(* C23: every regular file under the root whose root-relative path has no  *)
(* dot-prefixed component and lies within the depth and recursion limits   *)
(* is in the snapshot scan_directory returns, whatever the components of   *)
(* the root's own absolute path are.                                       *)
(***************************************************************************)
C23_PlainFilesRecorded ==
    Scanned =>
        \A n \in ScanNodes :
            ( /\ tree[n].kind = "file"
              /\ \A i \in 1..Len(n) : n[i][1] # 46
              /\ recursive \/ Len(n) = 1
              /\ max_depth = <<>> \/ Len(n) <= max_depth[1] )
                => Join(n) \in DOMAIN scanned

(***************************************************************************)
(* The persisted form of a snapshot: Python values, json.dumps and         *)
(* json.loads.  A Python value carries its type; a JSON text is a sequence *)
(* of tokens.                                                              *)
(***************************************************************************)
PyNone == [type |-> "null"]
PyNum(n) == [type |-> "number", val |-> n]
PyStr(str) == [type |-> "string", val |-> str]
PyObj(f) == [type |-> "object", val |-> f]
PyList(seq) == [type |-> "array", val |-> seq]

\* the dict scan_directory builds, as a Python value
PySnapshot(S) ==
    PyObj([k \in DOMAIN S |->
              PyObj([mtime |-> PyNum(S[k].mtime),
                     size |-> PyNum(S[k].size),
                     hash |-> IF S[k].hash = None THEN PyNone
                              ELSE PyStr(S[k].hash)])])

\* a dict of file records read as a snapshot: d[fp]['hash'] and the rest
SnapshotOf(d) ==
    [k \in DOMAIN d.val |->
        [mtime |-> d.val[k].val.mtime.val,
         size |-> d.val[k].val.size.val,
         hash |-> IF d.val[k].val.hash.type = "null" THEN None
                  ELSE d.val[k].val.hash.val]]

\* json.dumps with None written as the string "None" would be read back as
\* a string; here with null read back as the empty string
json_scalar_null_as_empty(tok) ==
    CASE tok.t = "null" -> PyStr("")
      [] tok.t = "number" -> PyNum(tok.v)
      [] tok.t = "string" -> PyStr(tok.v)

\* json.loads of a scalar token: null -> None, a number, a string
json_scalar(tok) ==
    CASE tok.t = "null" -> PyNone
      [] tok.t = "number" -> PyNum(tok.v)
      [] tok.t = "string" -> PyStr(tok.v)

RECURSIVE dumps(_)
RECURSIVE dumps_members(_, _)
RECURSIVE dumps_items(_)
\* json.dumps(value): the members of a dict in its iteration order (an
\* order the text's reader does not depend on)
dumps(v) ==
    CASE v.type = "null" -> << [t |-> "null"] >>
      [] v.type = "number" -> << [t |-> "number", v |-> v.val] >>
      [] v.type = "string" -> << [t |-> "string", v |-> v.val] >>
      [] v.type = "object" ->
            << [t |-> "{"] >> \o dumps_members(v.val, DOMAIN v.val)
                              \o << [t |-> "}"] >>
      [] v.type = "array" ->
            << [t |-> "["] >> \o dumps_items(v.val) \o << [t |-> "]"] >>

dumps_members(f, keys) ==
    IF keys = {} THEN <<>>
    ELSE LET k == CHOOSE x \in keys : TRUE
         IN  << [t |-> "key", v |-> k] >> \o dumps(f[k])
                 \o dumps_members(f, keys \ {k})

dumps_items(seq) ==
    IF seq = <<>> THEN <<>> ELSE dumps(Head(seq)) \o dumps_items(Tail(seq))

ParseFail == [ok |-> FALSE]

RECURSIVE ParseValue(_, _)
RECURSIVE ParseMembers(_, _, _)
RECURSIVE ParseItems(_, _, _)
\* the JSON value that begins at token i of the text, and where it ends
ParseValue(text, i) ==
    IF i > Len(text) THEN ParseFail
    ELSE CASE text[i].t \in {"null", "number", "string"} ->
                  [ok |-> TRUE, val |-> json_scalar(text[i]), next |-> i + 1]
           [] text[i].t = "{" -> ParseMembers(text, i + 1, <<>>)
           [] text[i].t = "[" -> ParseItems(text, i + 1, <<>>)
           [] OTHER -> ParseFail

ParseMembers(text, i, acc) ==
    IF i > Len(text) THEN ParseFail
    ELSE IF text[i].t = "}"
         THEN [ok |-> TRUE, val |-> PyObj(acc), next |-> i + 1]
    ELSE IF text[i].t = "key"
         THEN LET r == ParseValue(text, i + 1)
              IN  IF r.ok
                  THEN ParseMembers(text, r.next, (text[i].v :> r.val) @@ acc)
                  ELSE ParseFail
    ELSE ParseFail

ParseItems(text, i, acc) ==
    IF i > Len(text) THEN ParseFail
    ELSE IF text[i].t = "]"
         THEN [ok |-> TRUE, val |-> PyList(acc), next |-> i + 1]
    ELSE LET r == ParseValue(text, i)
         IN  IF r.ok THEN ParseItems(text, r.next, Append(acc, r.val))
             ELSE ParseFail

\* json.loads(text): the value, or a raise (ok = FALSE) when the text is
\* not one complete JSON value
loads(text) ==
    LET r == ParseValue(text, 1)
    IN  IF r.ok /\ r.next = Len(text) + 1 THEN r ELSE ParseFail

(***************************************************************************)
(* The two stores: witness.save_scan / load_previous_scan on the one       *)
(* last-scan file, and diff_witness.save_state / load_state on one file    *)
(* per name.                                                               *)
(***************************************************************************)
\* saves begun and damages done in a run
MaxStoreOps == 2
\* tokens that reach the file in one write of the buffered writer
BufferLen == 8

\* WITNESS_STATE_FILE = ~/.witness_last_scan.json
ScanFile == <<".witness_last_scan", ".json">>

StateNames == {"now", "prev"}

\* one file for every name
state_file_shared(name) == <<"state", ".json">>

\* WITNESS_CACHE / f"{name}.json"
state_file(name) == <<name, ".json">>

Files == {ScanFile} \cup { state_file(n) : n \in StateNames }

\* str(path) of the roots scans are saved for: "/w" and "/v"
RootKeys == { <<47, 119>>, <<47, 118>> }

\* the snapshots handed to the stores: empty, one unreadable file, two files
StoreSnaps ==
    { EmptySnapshot,
      [q \in {<<98>>} |-> [mtime |-> 1, size |-> 0, hash |-> None]],
      [q \in Paths |-> [mtime |-> 1, size |-> 0, hash |-> hexdigest8(<<>>)]] }

Missing == [kind |-> "missing"]
OnDisk(text) == [kind |-> "file", text |-> text]

\* datetime.now().isoformat()
Timestamp == PyStr("now")

\* save_scan's `data`
scan_data(path, S) ==
    PyObj([path |-> PyStr(path), timestamp |-> Timestamp,
           state |-> PySnapshot(S)])

\* save_state's `data`
state_data(name, S, path) ==
    PyObj([name |-> PyStr(name), timestamp |-> Timestamp,
           path |-> PyStr(path), state |-> PySnapshot(S)])

\* load_previous_scan(path): None when the file is missing, when its text
\* does not parse, when the parsed value has no .get (AttributeError, caught
\* by the bare except), and when the record's path is another
load_previous_scan(file, path) ==
    IF file.kind = "missing" THEN PyNone
    ELSE LET r == loads(file.text)
         IN  IF ~r.ok THEN PyNone
             ELSE IF r.val.type # "object" THEN PyNone
             ELSE IF "path" \in DOMAIN r.val.val
                       /\ r.val.val["path"] = PyStr(path)
                  THEN r.val
             ELSE PyNone

\* load_state(name): None when the file is missing or its text does not
\* parse, otherwise the parsed value, whatever it is
load_state(file) ==
    IF file.kind = "missing" THEN PyNone
    ELSE LET r == loads(file.text)
         IN  IF r.ok THEN r.val ELSE PyNone

\* texts a file can hold that no save wrote: bytes that are not JSON, and
\* the JSON text [1]
GarbageText == << [t |-> "garbage"] >>
WrongShapeText == dumps(PyList(<< PyNum(1) >>))
DamagedTexts == { GarbageText, WrongShapeText }

NoSave == [key |-> <<>>, path |-> <<>>, state |-> EmptySnapshot, data |-> PyNone]
NotSaving == [file |-> <<>>, rec |-> NoSave, pending |-> <<>>, open |-> FALSE]
NoLoad == [op |-> "none"]

InitStore ==
    /\ DifferOff
    /\ PollerOff
    /\ CliOff
    /\ ScanOff
    /\ RootOff
    /\ ChainOff
    /\ fs = [p \in Paths |-> Absent]
    /\ fsops = 0
    /\ disk = [f \in Files |-> Missing]
    /\ saving = NotSaving
    /\ loaded = NoLoad
    /\ wsaved = NoSave
    /\ savedFor = [p \in RootKeys |-> NoSave]
    /\ csaved = [n \in StateNames |-> NoSave]
    /\ fstat = [f \in Files |-> "clean"]
    /\ storeops = 0

\* Path.write_text, first half: open(file, 'w') creates or truncates it
SaveOpen(f, rec) ==
    /\ ~saving.open
    /\ storeops < MaxStoreOps
    /\ storeops' = storeops + 1
    /\ disk' = [disk EXCEPT ![f] = OnDisk(<<>>)]
    /\ saving' = [file |-> f, rec |-> rec, pending |-> dumps(rec.data),
                  open |-> TRUE]
    /\ fstat' = [fstat EXCEPT ![f] = "saving"]
    /\ loaded' = NoLoad

\* save_scan(path, state), up to the opening of the file
SaveScanOpen ==
    \E p \in RootKeys, S \in StoreSnaps :
        /\ SaveOpen(ScanFile,
                    [key |-> p, path |-> p, state |-> S,
                     data |-> scan_data(p, S)])
        /\ UNCHANGED <<dvars, pvars, uvars, svars, rvars, cvars, fs, fsops, wsaved,
                       savedFor, csaved>>

\* save_state(name, state, path), up to the opening of the file
SaveStateOpen ==
    \E n \in StateNames, S \in StoreSnaps, p \in RootKeys :
        /\ SaveOpen(state_file(n),
                    [key |-> n, path |-> p, state |-> S,
                     data |-> state_data(n, S, p)])
        /\ UNCHANGED <<dvars, pvars, uvars, svars, rvars, cvars, fs, fsops, wsaved,
                       savedFor, csaved>>

\* the writer's buffer is flushed while more text is to come
SaveFlush ==
    /\ saving.open
    /\ Len(saving.pending) > BufferLen
    /\ disk' = [disk EXCEPT ![saving.file] =
                    OnDisk(@.text \o SubSeq(saving.pending, 1, BufferLen))]
    /\ saving' = [saving EXCEPT !.pending =
                      SubSeq(@, BufferLen + 1, Len(@))]
    /\ loaded' = NoLoad
    /\ UNCHANGED <<dvars, pvars, uvars, svars, rvars, cvars, fs, fsops, wsaved, savedFor,
                   csaved, fstat, storeops>>

\* the rest of the text is written and the file closed: the save is complete
SaveClose ==
    /\ saving.open
    /\ Len(saving.pending) <= BufferLen
    /\ disk' = [disk EXCEPT ![saving.file] = OnDisk(@.text \o saving.pending)]
    /\ saving' = [saving EXCEPT !.pending = <<>>, !.open = FALSE]
    /\ fstat' = [fstat EXCEPT ![saving.file] = "clean"]
    /\ IF saving.file = ScanFile
       THEN /\ wsaved' = saving.rec
            /\ savedFor' = [savedFor EXCEPT ![saving.rec.key] = saving.rec]
            /\ csaved' = csaved
       ELSE /\ csaved' = [csaved EXCEPT ![saving.rec.key] = saving.rec]
            /\ wsaved' = wsaved
            /\ savedFor' = savedFor
    /\ loaded' = NoLoad
    /\ UNCHANGED <<dvars, pvars, uvars, svars, rvars, cvars, fs, fsops, storeops>>

\* the saving process is stopped (signal, crash) before the file is complete
SaveInterrupted ==
    /\ saving.open
    /\ saving' = [saving EXCEPT !.open = FALSE]
    /\ fstat' = [fstat EXCEPT ![saving.file] = "interrupted"]
    /\ loaded' = NoLoad
    /\ UNCHANGED <<dvars, pvars, uvars, svars, rvars, cvars, fs, fsops, disk, wsaved,
                   savedFor, csaved, storeops>>

\* a file's content is replaced by something no save wrote
Damage ==
    \E f \in Files, text \in DamagedTexts :
        /\ ~saving.open
        /\ storeops < MaxStoreOps
        /\ storeops' = storeops + 1
        /\ disk' = [disk EXCEPT ![f] = OnDisk(text)]
        /\ fstat' = [fstat EXCEPT ![f] = "damaged"]
        /\ loaded' = NoLoad
        /\ UNCHANGED <<dvars, pvars, uvars, svars, rvars, cvars, fs, fsops, saving, wsaved,
                       savedFor, csaved>>

\* the record of path p in a saved value: the value when it is a record of
\* that path
ForPath(v, p) ==
    IF v.type = "object" /\ v.val.path = PyStr(p) THEN v ELSE PyNone

\* previous_data = load_previous_scan(str(path)), by any process
LoadPreviousScan ==
    \E p \in RootKeys :
        /\ loaded' = [op |-> "load_previous_scan",
                      arg |-> p,
                      result |-> load_previous_scan(disk[ScanFile], p),
                      at |-> fstat[ScanFile],
                      old |-> ForPath(wsaved.data, p),
                      new |-> IF fstat[ScanFile] \in {"saving", "interrupted"}
                              THEN ForPath(saving.rec.data, p)
                              ELSE ForPath(wsaved.data, p)]
        /\ UNCHANGED <<dvars, pvars, uvars, svars, rvars, cvars, fs, fsops, disk, saving,
                       wsaved, savedFor, csaved, fstat, storeops>>

\* state = load_state(name), by any process
LoadState ==
    \E n \in StateNames :
        /\ loaded' = [op |-> "load_state",
                      arg |-> n,
                      result |-> load_state(disk[state_file(n)]),
                      at |-> fstat[state_file(n)],
                      old |-> csaved[n].data,
                      new |-> IF fstat[state_file(n)] \in {"saving", "interrupted"}
                              THEN saving.rec.data
                              ELSE csaved[n].data]
        /\ UNCHANGED <<dvars, pvars, uvars, svars, rvars, cvars, fs, fsops, disk, saving,
                       wsaved, savedFor, csaved, fstat, storeops>>

NextStore ==
    \/ SaveScanOpen
    \/ SaveStateOpen
    \/ SaveFlush
    \/ SaveClose
    \/ SaveInterrupted
    \/ Damage
    \/ LoadPreviousScan
    \/ LoadState

SpecStore == InitStore /\ [][NextStore]_vars

(***************************************************************************)
(* Vocabulary of the store claims                                          *)
(***************************************************************************)
LoadedScan == loaded.op = "load_previous_scan"
LoadedState == loaded.op = "load_state"

\* the file read by the latest load was as its last completed save left it
\* (or had never been written)
ReadClean == loaded.op # "none" /\ loaded.at = "clean"

\* the save whose record the latest load was to return, had it been kept
Original == IF LoadedScan THEN wsaved ELSE csaved[loaded.arg]

\* the snapshot inside a loaded record
LoadedSnapshot == SnapshotOf(loaded.result.val.state)

(***************************************************************************)
(* C15: load_previous_scan(p) returns the snapshot of the most recent      *)
(* save_scan made for p, also when scans of other root paths were saved    *)
(* after it (and None when no scan was ever saved for p).                  *)
(***************************************************************************)
C15_LatestScanOfPath ==
    (LoadedScan /\ ReadClean) =>
        /\ loaded.result = savedFor[loaded.arg].data
        /\ loaded.result # PyNone
               => LoadedSnapshot = savedFor[loaded.arg].state

(***************************************************************************)
(* C16: load_state(name) returns the snapshot of the most recent           *)
(* save_state for that name, whatever was saved under other names before   *)
(* or after it, and nothing of what was saved under the name earlier.      *)
(***************************************************************************)
C16_NamedSlotsIndependent ==
    (LoadedState /\ ReadClean) =>
        /\ loaded.result = csaved[loaded.arg].data
        /\ loaded.result # PyNone
               => LoadedSnapshot = csaved[loaded.arg].state

\* "now" is loaded after the latest save was made under "prev"
C16_Witness ==
    /\ LoadedState
    /\ ReadClean
    /\ loaded.arg = "now"
    /\ loaded.result # PyNone
    /\ saving.rec.key = "prev"
    /\ csaved["prev"] # NoSave

(***************************************************************************)
(* C17: a snapshot read back from either store equals the snapshot that    *)
(* was saved, record by record and field by field (an absent digest is     *)
(* read back absent), and every diff computed from it equals the diff      *)
(* computed from the snapshot that was saved.                              *)
(***************************************************************************)
C17_RoundTripLossless ==
    (ReadClean /\ loaded.result # PyNone) =>
        /\ loaded.result.val.state = PySnapshot(Original.state)
        /\ LoadedSnapshot = Original.state
        /\ \A T \in StoreSnaps :
               /\ compare_states(LoadedSnapshot, T) = compare_states(Original.state, T)
               /\ compare_states(T, LoadedSnapshot) = compare_states(T, Original.state)
               /\ diff_states(Stored("a", LoadedSnapshot), Stored("b", T))
                      = diff_states(Stored("a", Original.state), Stored("b", T))

\* a snapshot holding a record without digest has been saved by save_scan
\* and read back by load_previous_scan
C17_Witness ==
    /\ LoadedScan
    /\ ReadClean
    /\ loaded.result # PyNone
    /\ \E k \in DOMAIN LoadedSnapshot : LoadedSnapshot[k].hash = None

(***************************************************************************)
(* C18: a load of a record that is absent, or whose persisted data is      *)
(* malformed, returns None.                                                *)
(***************************************************************************)
C18_MalformedLoadsAsAbsent ==
    /\ (loaded.op # "none" /\ loaded.at = "damaged") => loaded.result = PyNone
    /\ (ReadClean /\ Original = NoSave) => loaded.result = PyNone

(***************************************************************************)
(* C19: a load that runs while a save of the same file is in progress, or  *)
(* after a save of it was interrupted, returns the complete record from    *)
(* before the save or the complete new one.                                *)
(***************************************************************************)
C19_SaveNeverSeenPartly ==
    (loaded.op # "none" /\ loaded.at \in {"saving", "interrupted"}) =>
        \/ loaded.result = loaded.old
        \/ loaded.result = loaded.new

(***************************************************************************)
(* SpecChain: chain_witness.watch_loop, its singleton guard, the chain's   *)
(* state file written by the chain under it, and a stop signal that may    *)
(* arrive at any point.                                                    *)
(***************************************************************************)
\* largest iteration number the chain's state file holds
MaxIteration == 2
\* the chain's state file is written at most MaxChainOps times in a run
MaxChainOps == 2

\* load_state() -> None
NoChain == [kind |-> "none"]

\* the dicts the state file can hold: with an 'iteration' (<<n>>) or
\* without the key (<<>>)
ChainDicts == { [kind |-> "dict", iteration |-> it] :
                  it \in { <<>> } \cup { <<n>> : n \in 1..MaxIteration } }

\* the state file: missing, not parsable, or holding a dict
ChainFiles == { [kind |-> "missing"], [kind |-> "garbage"] }
                  \cup { [kind |-> "file", data |-> d] : d \in ChainDicts }

\* chain_witness.load_state(): None for a missing or unparsable file
chain_load_state(file) == IF file.kind = "file" THEN file.data ELSE NoChain

\* hashlib.md5(json.dumps(data, sort_keys=True).encode()).hexdigest()[:12]
fingerprint(data) == HexNames[md5(data.iteration) + 1]

\* describe_change reads old["iteration"] and new["iteration"]: KeyError
\* when either dict has no such key
describe_raises(old, new) == old.iteration = <<>> \/ new.iteration = <<>>

\* the lines describe_change returns
describe_change(old, new) ==
    IF old.iteration # new.iteration THEN << "iteration" >> ELSE <<>>

\* if guard: guard.release()
release(g) == IF g = "held" THEN "released" ELSE g

InitChain ==
    /\ DifferOff
    /\ PollerOff
    /\ CliOff
    /\ ScanOff
    /\ RootOff
    /\ StoreOff
    /\ fs = [p \in Paths |-> Absent]
    /\ fsops = 0
    /\ cpc = "start"
    /\ has_singleton \in BOOLEAN
    /\ taken \in BOOLEAN
    /\ guard = "none"
    /\ cfile \in ChainFiles
    /\ cstate = NoChain
    /\ cfp = ""
    /\ clog = <<>>
    /\ cloaded = FALSE
    /\ chainops = 0

\* guard = Singleton("chain-witness"); if not guard.acquire(): return
Acquire ==
    /\ cpc = "start"
    /\ IF has_singleton
       THEN IF taken
            THEN guard' = "refused" /\ cpc' = "returned"
            ELSE guard' = "held" /\ cpc' = "begin"
       ELSE guard' = "none" /\ cpc' = "begin"
    /\ UNCHANGED <<dvars, pvars, uvars, svars, rvars, tvars, fs, fsops, has_singleton,
                   taken, cfile, cstate, cfp, clog, cloaded, chainops>>

\* log_observation("chain_witness begins")
LogBegins ==
    /\ cpc = "begin"
    /\ clog' = Append(clog, "begins")
    /\ cpc' = "load"
    /\ UNCHANGED <<dvars, pvars, uvars, svars, rvars, tvars, fs, fsops, has_singleton,
                   taken, guard, cfile, cstate, cfp, cloaded, chainops>>

\* state = load_state(); if state is None: ... waiting
LoadFirst ==
    /\ cpc = "load"
    /\ cloaded' = TRUE
    /\ cstate' = chain_load_state(cfile)
    /\ cpc' = IF chain_load_state(cfile) = NoChain THEN "wait" ELSE "initial"
    /\ UNCHANGED <<dvars, pvars, uvars, svars, rvars, tvars, fs, fsops, has_singleton,
                   taken, guard, cfile, cfp, clog, chainops>>

\* while state is None: time.sleep(interval); state = load_state()
WaitTick ==
    /\ cpc = "wait"
    /\ cstate' = chain_load_state(cfile)
    /\ cpc' = IF chain_load_state(cfile) = NoChain THEN "wait" ELSE "initial"
    /\ UNCHANGED <<dvars, pvars, uvars, svars, rvars, tvars, fs, fsops, has_singleton,
                   taken, guard, cfile, cfp, clog, cloaded, chainops>>

\* fp = fingerprint(state); log_observation("initial state: ...")
LogInitial ==
    /\ cpc = "initial"
    /\ cfp' = fingerprint(cstate)
    /\ clog' = Append(clog, "initial")
    /\ cpc' = "poll"
    /\ UNCHANGED <<dvars, pvars, uvars, svars, rvars, tvars, fs, fsops, has_singleton,
                   taken, guard, cfile, cstate, cloaded, chainops>>

\* one pass of the polling loop, inside try ... finally
ChainTick ==
    /\ cpc = "poll"
    /\ LET new_st == chain_load_state(cfile)
       IN  IF new_st = NoChain \/ fingerprint(new_st) = cfp
           THEN UNCHANGED <<cpc, guard, cstate, cfp, clog>>
           ELSE IF describe_raises(cstate, new_st)
           THEN /\ cpc' = "crashed"
                /\ guard' = release(guard)
                /\ UNCHANGED <<cstate, cfp, clog>>
           ELSE /\ clog' = clog \o << "moved" >> \o describe_change(cstate, new_st)
                /\ cstate' = new_st
                /\ cfp' = fingerprint(new_st)
                /\ UNCHANGED <<cpc, guard>>
    /\ UNCHANGED <<dvars, pvars, uvars, svars, rvars, tvars, fs, fsops, has_singleton,
                   taken, cfile, cloaded, chainops>>

\* the chain (another process) rewrites or removes its state file
ChainWrite ==
    /\ cpc \in {"start", "begin", "load", "wait", "initial", "poll"}
    /\ chainops < MaxChainOps
    /\ chainops' = chainops + 1
    /\ cfile' \in ChainFiles \ {cfile}
    /\ UNCHANGED <<dvars, pvars, uvars, svars, rvars, tvars, fs, fsops, cpc,
                   has_singleton, taken, guard, cstate, cfp, clog, cloaded>>

\* KeyboardInterrupt inside the try: except logs the stop, finally releases
StopCaught ==
    /\ cpc = "poll"
    /\ clog' = Append(clog, "stops")
    /\ guard' = release(guard)
    /\ cpc' = "stopped"
    /\ UNCHANGED <<dvars, pvars, uvars, svars, rvars, tvars, fs, fsops, has_singleton,
                   taken, cfile, cstate, cfp, cloaded, chainops>>

\* KeyboardInterrupt before the try is entered: it leaves watch_loop, and no
\* except or finally clause is in its way
StopUncaught ==
    /\ cpc \in {"start", "begin", "load", "wait", "initial"}
    /\ cpc' = "killed"
    /\ UNCHANGED <<dvars, pvars, uvars, svars, rvars, tvars, fs, fsops, has_singleton,
                   taken, guard, cfile, cstate, cfp, clog, cloaded, chainops>>

NextChain ==
    \/ Acquire
    \/ LogBegins
    \/ LoadFirst
    \/ WaitTick
    \/ LogInitial
    \/ ChainTick
    \/ ChainWrite
    \/ StopCaught
    \/ StopUncaught

SpecChain == InitChain /\ [][NextChain]_vars

\* watch_loop has returned or has been left by an exception
ChainTerminated == cpc \in {"returned", "stopped", "crashed", "killed"}

(***************************************************************************)
(* C20: whenever watch_loop has acquired the guard, the guard is released  *)
(* by the time watch_loop terminates, wherever the stop signal arrived     *)
(* after the acquisition; and when the guard cannot be acquired,           *)
(* watch_loop returns without having loaded the state or logged anything.  *)
(***************************************************************************)
C20_GuardReleasedOnExit ==
    /\ ChainTerminated => guard # "held"
    /\ guard = "refused" => (cpc = "returned" /\ ~cloaded /\ clog = <<>>)

\* a tick of the loop: the step from one time.sleep to the next, or out of
\* the loop by an exception other than the stop signal
ChainTickStep ==
    /\ cpc = "poll"
    /\ cpc' \in {"poll", "crashed"}
    /\ cfile' = cfile

(***************************************************************************)
(* C24: in the chain watcher's loop, a tick in which the state file is     *)
(* missing or unparsable leaves the remembered state and fingerprint       *)
(* unchanged and logs nothing; "chain moved" is logged in a tick if and    *)
(* only if the fingerprint of the loaded state differs from that of the    *)
(* last observed state (the remembered fingerprint is the remembered       *)
(* state's), and then the remembered state and fingerprint are those of    *)
(* the loaded state; no content of a loaded state ends the loop.           *)
(***************************************************************************)
C24_ChainTickFrame ==
    /\ [](cpc # "crashed")
    /\ [](cpc = "poll" => cfp = fingerprint(cstate))
    /\ [][ChainTickStep =>
            LET new_st == chain_load_state(cfile)
            IN  IF new_st = NoChain
                THEN UNCHANGED <<cstate, cfp, clog>>
                ELSE IF fingerprint(new_st) # cfp
                THEN /\ Len(clog') > Len(clog)
                     /\ SubSeq(clog', 1, Len(clog) + 1) = clog \o << "moved" >>
                     /\ cstate' = new_st
                     /\ cfp' = fingerprint(new_st)
                ELSE UNCHANGED <<cstate, cfp, clog>>]_vars

(***************************************************************************)
(* SpecCli: the commands of witness.py and diff_witness.py run one after   *)
(* another on one root, each to its end, with the files of the root        *)
(* changing between two commands.                                          *)
(***************************************************************************)
\* commands run and filesystem changes made in one behaviour
MaxCliSteps == 3

\* the root the commands are given: /w
CliRootParts == << <<47>>, <<119>> >>
CliRoot == <<47, 119>>

\* what a file of the root can be between two commands: missing, empty,
\* empty and touched later, one byte long, unreadable
CliEntries == { Absent, File(<<>>, 1, TRUE), File(<<>>, 2, TRUE),
                File(<<0>>, 1, TRUE), File(<<>>, 1, FALSE) }

\* the root's files as the tree scan_directory walks
FlatTree(f) == [n \in { <<p>> : p \in Paths } |-> f[n[1]]]

\* scan_directory(path) with the default options
scan_now == scan_directory(CliRootParts, TRUE, FlatTree(fs), TRUE, <<>>)

\* previous_data.get("state", {})
get_state(data) ==
    IF "state" \in DOMAIN data.val THEN SnapshotOf(data.val["state"])
    ELSE EmptySnapshot

\* witness_diff saving the scan on the first run only
witness_diff_first_save_only(file, current) ==
    LET previous_data == load_previous_scan(file, CliRoot)
    IN  IF previous_data.type = "null"
        THEN [first |-> TRUE, report |-> <<>>,
              file |-> OnDisk(dumps(scan_data(CliRoot, current)))]
        ELSE [first |-> FALSE,
              report |-> compare_states(get_state(previous_data), current),
              file |-> file]

\* witness_diff(path): whether it found no previous scan, the changes it
\* printed, and the last-scan file it leaves
witness_diff(file, current) ==
    LET previous_data == load_previous_scan(file, CliRoot)
    IN  IF previous_data.type = "null"
        THEN [first |-> TRUE, report |-> <<>>,
              file |-> OnDisk(dumps(scan_data(CliRoot, current)))]
        ELSE [first |-> FALSE,
              report |-> compare_states(get_state(previous_data), current),
              file |-> OnDisk(dumps(scan_data(CliRoot, current)))]

\* witness_once(path, save=save): the last-scan file it leaves; an empty
\* scan returns before the save is reached
witness_once(file, current, save) ==
    IF DOMAIN current = {} THEN file
    ELSE IF save THEN OnDisk(dumps(scan_data(CliRoot, current)))
    ELSE file

\* `if prev_now:` -- None and the empty dict are false
truthy(v) ==
    IF v.type = "null" THEN FALSE
    ELSE IF v.type = "object" THEN DOMAIN v.val # {}
    ELSE TRUE

\* a loaded state as diff_states reads it: .get('name'), .get('state', {})
AsStored(data) ==
    Stored(IF "name" \in DOMAIN data.val THEN data.val["name"].val ELSE None,
           get_state(data))

\* prev_now.get("path", "")
get_path(data) ==
    IF "path" \in DOMAIN data.val THEN data.val["path"].val ELSE <<>>

\* the quick command: the two slot files it leaves, and the two states it
\* hands to diff_states (none when no 'now' was stored)
quick(nowfile, prevfile, current) ==
    LET prev_now == load_state(nowfile)
        written == OnDisk(dumps(state_data("now", current, CliRoot)))
        new_now == load_state(written)
    IN  IF truthy(prev_now)
        THEN [now |-> written,
              prev |-> OnDisk(dumps(state_data("prev", get_state(prev_now),
                                               get_path(prev_now)))),
              compared |-> << AsStored(prev_now), AsStored(new_now) >>]
        ELSE [now |-> written, prev |-> prevfile, compared |-> <<>>]

InitCli ==
    /\ DifferOff
    /\ PollerOff
    /\ ScanOff
    /\ RootOff
    /\ ChainOff
    /\ fs \in [Paths -> CliEntries]
    /\ fsops = 0
    /\ disk = [f \in Files |-> Missing]
    /\ saving = NotSaving
    /\ loaded = NoLoad
    /\ wsaved = NoSave
    /\ savedFor = [p \in RootKeys |-> NoSave]
    /\ csaved = [n \in StateNames |-> NoSave]
    /\ fstat = [f \in Files |-> "clean"]
    /\ storeops = 0
    /\ out = NoRun
    /\ changed = FALSE
    /\ clisteps = 0

\* a file of the root is written, touched, removed or made unreadable
\* between two commands
CliFsChange ==
    /\ clisteps < MaxCliSteps
    /\ \E p \in Paths :
           \E e \in CliEntries \ {fs[p]} : fs' = [fs EXCEPT ![p] = e]
    /\ changed' = TRUE
    /\ clisteps' = clisteps + 1
    /\ UNCHANGED <<dvars, pvars, svars, rvars, cvars, fsops, disk, saving,
                   loaded, wsaved, savedFor, csaved, fstat, storeops, out>>

\* python witness.py /w --diff
WitnessDiff ==
    /\ clisteps < MaxCliSteps
    /\ LET current == scan_now
           r == witness_diff(disk[ScanFile], current)
       IN  /\ disk' = [disk EXCEPT ![ScanFile] = r.file]
           /\ out' = [cmd |-> "diff", first |-> r.first, report |-> r.report,
                      current |-> current, quiet |-> ~changed,
                      prior |-> out.kept, wanted |-> out.due,
                      kept |-> << current >>, due |-> << current >>,
                      slot |-> out.slot]
    /\ changed' = FALSE
    /\ clisteps' = clisteps + 1
    /\ UNCHANGED <<dvars, pvars, svars, rvars, cvars, fs, fsops, saving,
                   loaded, wsaved, savedFor, csaved, fstat, storeops>>

\* python witness.py /w --once, with or without --save
WitnessOnce ==
    /\ clisteps < MaxCliSteps
    /\ \E save \in BOOLEAN :
           LET current == scan_now
               file == witness_once(disk[ScanFile], current, save)
           IN  /\ disk' = [disk EXCEPT ![ScanFile] = file]
               /\ out' = [cmd |-> "once", save |-> save, current |-> current,
                          kept |-> IF file = disk[ScanFile] THEN out.kept
                                   ELSE << current >>,
                          due |-> IF save THEN << current >> ELSE out.due,
                          slot |-> out.slot]
    /\ clisteps' = clisteps + 1
    /\ UNCHANGED <<dvars, pvars, svars, rvars, cvars, fs, fsops, saving,
                   loaded, wsaved, savedFor, csaved, fstat, storeops, changed>>

\* python diff_witness.py quick /w
Quick ==
    /\ clisteps < MaxCliSteps
    /\ LET current == scan_now
           r == quick(disk[state_file("now")], disk[state_file("prev")],
                      current)
           ran == [cmd |-> "quick-first", current |-> current,
                   was |-> out.slot, prevWas |-> disk[state_file("prev")],
                   kept |-> out.kept, due |-> out.due,
                   slot |-> << current >>]
       IN  /\ disk' = [disk EXCEPT ![state_file("now")] = r.now,
                                   ![state_file("prev")] = r.prev]
           /\ IF r.compared = <<>>
              THEN out' = ran
              ELSE \E d \in diff_states(r.compared[1], r.compared[2]) :
                       out' = [diff |-> d, shown |-> print_diff(d)]
                                  @@ [ran EXCEPT !.cmd = "quick"]
    /\ clisteps' = clisteps + 1
    /\ UNCHANGED <<dvars, pvars, svars, rvars, cvars, fs, fsops, saving,
                   loaded, wsaved, savedFor, csaved, fstat, storeops, changed>>

NextCli ==
    \/ CliFsChange
    \/ WitnessDiff
    \/ WitnessOnce
    \/ Quick

SpecCli == InitCli /\ [][NextCli]_vars

\* the snapshot the last-scan file holds for the root, in a sequence; the
\* empty sequence when it holds none
StoredScan ==
    LET d == load_previous_scan(disk[ScanFile], CliRoot)
    IN  IF d.type = "null" THEN <<>> ELSE << get_state(d) >>

\* the paths present in one snapshot only, or with another digest
Differing(S, T) ==
    { q \in DOMAIN S \cup DOMAIN T :
         \/ q \notin DOMAIN S
         \/ q \notin DOMAIN T
         \/ S[q].hash # T[q].hash }

(***************************************************************************)
(* C21: in a sequence of witness_diff runs on one path, the first run (no  *)
(* scan stored for the path) stores the current scan and reports no        *)
(* change; every later run reports exactly the diff between the scan the   *)
(* preceding run stored and the current scan, then stores the current      *)
(* scan; so a run names exactly the paths that differ from the preceding   *)
(* run's scan, and a run with no change since the preceding run reports    *)
(* nothing.                                                                *)
(***************************************************************************)
C21_DiffRunsChain ==
    out.cmd = "diff" =>
        /\ out.first <=> out.prior = <<>>
        /\ out.first => out.report = <<>>
        /\ ~out.first =>
               /\ out.report = compare_states(out.prior[1], out.current)
               /\ { c[2] : c \in Range(out.report) }
                      = Differing(out.prior[1], out.current)
               /\ out.quiet => out.report = <<>>
        /\ StoredScan = << out.current >>

\* a later run that reported a change made since the preceding run
C21_Witness ==
    /\ out.cmd = "diff"
    /\ ~out.first
    /\ ~out.quiet
    /\ out.report # <<>>

(***************************************************************************)
(* C22: witness_once called with save=True leaves the snapshot it has just *)
(* scanned stored under the resolved path, whatever the scan holds (an     *)
(* empty one too), and the next witness_diff on that path compares against *)
(* that scan, not against an older stored one.                             *)
(***************************************************************************)
C22_OnceSavePersists ==
    /\ (out.cmd = "once" /\ out.save) => StoredScan = << out.current >>
    /\ (out.cmd = "diff" /\ out.wanted # <<>>) =>
           /\ ~out.first
           /\ out.report = compare_states(out.wanted[1], out.current)

\* the snapshot a named slot holds, in a sequence; the empty sequence when
\* the slot's file is missing
SlotState(name) ==
    LET d == load_state(disk[state_file(name)])
    IN  IF d.type = "null" THEN <<>> ELSE << get_state(d) >>

(***************************************************************************)
(* C25: after the quick command has run with a 'now' snapshot stored, the  *)
(* 'prev' slot holds the files of the snapshot that was in 'now' before    *)
(* the command, the 'now' slot holds the fresh scan, and the printed diff  *)
(* is the diff from the old 'now' to the fresh scan; when no 'now' was     *)
(* stored, 'now' alone is written, 'prev' is left as it was and no diff is *)
(* produced.                                                               *)
(***************************************************************************)
C25_QuickRotatesSlots ==
    /\ out.cmd = "quick" =>
           /\ out.was # <<>>
           /\ SlotState("prev") = out.was
           /\ SlotState("now") = << out.current >>
           /\ Range(out.diff.created)
                  = DOMAIN out.current \ DOMAIN out.was[1]
           /\ Range(out.diff.deleted)
                  = DOMAIN out.was[1] \ DOMAIN out.current
           /\ Range(out.diff.modified)
                  = { q \in DOMAIN out.was[1] \cap DOMAIN out.current :
                        out.was[1][q].hash # out.current[q].hash }
           /\ out.shown = print_diff(out.diff)
    /\ out.cmd = "quick-first" =>
           /\ out.was = <<>>
           /\ SlotState("now") = << out.current >>
           /\ disk[state_file("prev")] = out.prevWas

=============================================================================
